---- MODULE Spec2Model ----
(***************************************************************************)
(* A model of the decoding core of the repository:                         *)
(*                                                                         *)
(*   espnet/nets/batch_beam_search_online.py   BatchBeamSearchOnline       *)
(*   espnet/nets/pytorch_backend/transducer/search.py                      *)
(*                                                                         *)
(* Scores are integers: one unit is a fixed negative step of log           *)
(* probability.  A scorer (decoder, joint network, language model) is a    *)
(* black box: each evaluation draws its log-probability vector from a      *)
(* small set.                                                              *)
(***************************************************************************)
EXTENDS Integers, Sequences, FiniteSets, TLC

(***************************************************************************)
(* Bounds of the model.                                                    *)
(***************************************************************************)
MaxFrames == 3      \* frames an encoder buffer holds at most
MaxCalls == 2       \* forward() calls of one run of the model
MaxBlocks == 4      \* blocks forward's loop processes in one session
EndDetectWindow == 1 \* hypothesis lengths the end detection looks back on
MaxEnded == 3        \* completed hypotheses handed to assemble_hyps at most

(***************************************************************************)
(* The values the constructor arguments and the call arguments are drawn   *)
(* from.  Ratios are written in tenths (5 is 0.5).                         *)
(***************************************************************************)
BlockSizes == {1, 2}
HopSizes == {0, 1}
LookAheads == {0, 2}
FeatLimits == {0, 1}
BeamSizes == {2}
MaxLenRatios == {0, 5}
MinLenRatios == {0, 5}

(***************************************************************************)
(* Token ids of the online search: sos starts every hypothesis, eos ends   *)
(* it, the ids between are ordinary tokens.                                *)
(***************************************************************************)
sos == 0
eos == 3
Vocab == 1..eos

\* Log-probability vectors a full scorer may return (index: token id).
PVecs == { <<0, -4, -3>>, <<-3, 0, -4>>, <<-4, -3, 0>> }

Max(a, b) == IF a >= b THEN a ELSE b
Min(a, b) == IF a <= b THEN a ELSE b

SeqLast(s) == s[Len(s)]

VARIABLES
  \* constructor arguments (__init__)
  block_size, hop_size, look_ahead, disable_repetition_detection,
  encoded_feat_length_limit, beam_size,
  \* streaming session state (reset)
  encbuffer, running_hyps, prev_hyps, ended_hyps, processed_block, process_idx,
  \* the forward() call in progress: its arguments and locals
  pc, maxlenratio, minlenratio, is_final, maxlen, minlen,
  cur_end_frame, h, block_is_final, best, truncated, exit,
  \* what the last forward() call gave its caller
  ret, err,
  \* history: calls made, search() calls of the session and of the block in
  \* progress, frames of the last call
  ncalls, nsteps, blocksteps, lastx

cfgvars == <<block_size, hop_size, look_ahead, disable_repetition_detection,
             encoded_feat_length_limit, beam_size>>
sessvars == <<encbuffer, running_hyps, prev_hyps, ended_hyps, processed_block,
              process_idx>>
callvars == <<pc, maxlenratio, minlenratio, is_final, maxlen, minlen,
              cur_end_frame, h, block_is_final, best, truncated, exit>>
outvars == <<ret, err>>
histvars == <<ncalls, nsteps, blocksteps, lastx>>

onlinevars == <<cfgvars, sessvars, callvars, outvars, histvars>>

VARIABLES
  \* search_interface: the arguments of the call (recog_args, rnnlm, h)
  search_type, recog_beam, nbest, nstep, u_max, prefix_alpha, normscore,
  rnnlm, lm_weight, h_length,
  \* the position in the running search and its loop counters
  tpc, ti, vn,
  \* the hypothesis lists of the search functions
  kept_hyps, hyps, B, A, C, D, S, V, final,
  \* the returned list
  nbest_hyps,
  \* history: the hypothesis last expanded, with the joint and language
  \* model log-probabilities of that expansion
  new_hyp, ytu, rnnlm_scores

argvars == <<search_type, recog_beam, nbest, nstep, u_max, prefix_alpha,
             normscore, rnnlm, lm_weight, h_length>>
listvars == <<kept_hyps, hyps, B, A, C, D, S, V, final>>
lastvars == <<new_hyp, ytu, rnnlm_scores>>
tvars == <<argvars, tpc, ti, vn, listvars, nbest_hyps, lastvars>>

VARIABLES
  \* BatchBeamSearchOnline.score_full: the constructor's text limit, the
  \* position of the call, hyp.yseq (a batch of rows of one length), what
  \* the full scorer was given and what the call raised
  decoder_text_length_limit, spc, hyp_yseq, batch_score_arg, score_err,
  \* the chainer updaters: the class, accum_grad, self.count, the parameter
  \* gradients held by the model, and what the last update_core call got
  \* from its batch and did
  updater, accum_grad, count, grads, batch_grad, last_call

scorevars == <<decoder_text_length_limit, spc, hyp_yseq, batch_score_arg,
               score_err>>
updvars == <<updater, accum_grad, count, grads, batch_grad, last_call>>
othervars == <<scorevars, updvars>>

vars == <<onlinevars, tvars, othervars>>

(***************************************************************************)
(* Values.  An optional object is a record with an isNone flag.            *)
(***************************************************************************)
NoneBuf == [isNone |-> TRUE, frames |-> <<>>]
SomeBuf(f) == [isNone |-> FALSE, frames |-> f]
NoneHyps == [isNone |-> TRUE, hyps |-> <<>>]
SomeHyps(s) == [isNone |-> FALSE, hyps |-> s]
RetUnset == [kind |-> "unset", hyps |-> <<>>]
RetNone == [kind |-> "None", hyps |-> <<>>]
RetList(s) == [kind |-> "list", hyps |-> s]

Hyp(y, s, d) == [yseq |-> y, score |-> s, dec |-> d]

(***************************************************************************)
(* Stable sort by score, highest first: Python's sorted(..., reverse=True) *)
(* keeps the order of entries with equal keys.                             *)
(***************************************************************************)
RECURSIVE InsertDesc(_, _)
InsertDesc(s, e) ==
  IF s = <<>> THEN <<e>>
  ELSE IF SeqLast(s).score >= e.score THEN Append(s, e)
  ELSE Append(InsertDesc(SubSeq(s, 1, Len(s) - 1), e), SeqLast(s))

RECURSIVE SortDesc(_)
SortDesc(s) ==
  IF s = <<>> THEN <<>>
  ELSE InsertDesc(SortDesc(SubSeq(s, 1, Len(s) - 1)), SeqLast(s))

Take(s, n) == SubSeq(s, 1, Min(n, Len(s)))

RECURSIVE Concat(_)
Concat(ss) == IF ss = <<>> THEN <<>> ELSE ss[1] \o Concat(Tail(ss))


(***************************************************************************)
(* The base class's per-step search logic (BatchBeamSearch: init_hyp,      *)
(* search, post_process) and the end-detection heuristic.                  *)
(***************************************************************************)

\* The seed beam: one hypothesis holding the start token, score 0, and the
\* initial state of every scorer.
init_hyp(x) == << Hyp(<<sos>>, 0, "init") >>

\* The children of parent p under the log-probability vector v, one per
\* token, each with the scorer's new state.
Children(p, v) ==
  [k \in DOMAIN v |-> Hyp(Append(p.yseq, k), p.score + v[k], "state")]

\* One search step: every running hypothesis is expanded by every token and
\* the best beam hypotheses are kept (stable order on equal scores).
search(running, vecs, beam) ==
  Take(SortDesc(Concat([i \in 1..Len(running) |-> Children(running[i], vecs[i])])),
       beam)

\* The hypothesis ends in the end token of the search (self.eos).
IsEos(self_eos, hyp) == SeqLast(hyp.yseq) = self_eos

AppendEos(self_eos, batch) ==
  [i \in 1..Len(batch) |-> [batch[i] EXCEPT !.yseq = Append(@, self_eos)]]

\* post_process with a completed list made anew from the rows ending in eos.
post_process_fresh(self_eos, i, ml, batch, ended) ==
  LET b == IF i = ml - 1 THEN AppendEos(self_eos, batch) ELSE batch
  IN  [batch |-> b,
       ended |-> SelectSeq(b, LAMBDA x: IsEos(self_eos, x)),
       remained |-> SelectSeq(b, LAMBDA x: ~IsEos(self_eos, x))]

\* post_process: in the last position (i = maxlen - 1) every row of the batch
\* gets eos appended (in the batch object the caller passed); rows ending in
\* eos are appended to the completed list; the others are returned.
post_process(self_eos, i, ml, batch, ended) ==
  LET b == IF i = ml - 1 THEN AppendEos(self_eos, batch) ELSE batch
  IN  [batch |-> b,
       ended |-> ended \o SelectSeq(b, LAMBDA x: IsEos(self_eos, x)),
       remained |-> SelectSeq(b, LAMBDA x: ~IsEos(self_eos, x))]

\* The best score among completed hypotheses (the list is not empty).
BestScore(ended) == SortDesc(ended)[1].score

\* end_detect: true when, for each length i, i-1, ... of the lookback window,
\* completed hypotheses of that length exist and the best of them is more
\* than the margin (two score units) below the best completed hypothesis.
end_detect(ended, i) ==
  /\ ended # <<>>
  /\ \A m \in 0..(EndDetectWindow - 1):
       LET same == SelectSeq(ended, LAMBDA x: Len(x.yseq) = i - m)
       IN  /\ same # <<>>
           /\ BestScore(same) - BestScore(ended) < -2

(***************************************************************************)
(* BatchBeamSearchOnline                                                   *)
(***************************************************************************)

\* The buffer taken to be the frames of the call alone.
BufferReplaced(buffer, x) == x

\* forward, lines 109-114: the frames of x join the end of the buffer.
BufferAfter(buffer, x) == IF buffer.isNone THEN x ELSE buffer.frames \o x

\* The step budget with one step granted whatever the ratio.
MaxLenAtLeastOne(ratio, T) ==
  Max(1, IF ratio = 0 THEN T ELSE (ratio * T) \div 10)

\* forward, lines 117-120: the step budget.  int() truncates.
MaxLenOf(ratio, T) == IF ratio = 0 THEN T ELSE Max(1, (ratio * T) \div 10)

\* forward, line 121.
MinLenOf(ratio, T) == (ratio * T) \div 10

\* forward, line 127.
CurEndFrame(bs, la, hs, pb) == bs - la + hs * pb

\* torch.Tensor.narrow(0, start, length): raises unless the slice lies in
\* the tensor.
NarrowOk(x, start, length) ==
  /\ length >= 0
  /\ start >= 0
  /\ start + length <= Len(x)

Narrow(x, start, length) == SubSeq(x, start + 1, start + length)

\* forward, line 139: whether the visible block is cut to the newest frames.
NeedsTruncation(limit, hh) == limit > 0 /\ Len(hh) > limit

\* forward, line 141: every running hypothesis loses its decoder state.
ResetDecoderStates(hs) ==
  [i \in 1..Len(hs) |-> [hs[i] EXCEPT !.dec = "None"]]

\* The loop test with the budget itself admitted as a position.
LoopCondIncl(idx, ml) == idx <= ml

\* process_one_block, line 154.
LoopCond(idx, ml) == idx < ml

\* process_one_block, lines 169-188: the repetition check is commented out,
\* the flag stays False.
PrevRepeat(batch, fin, disabled) == FALSE

\* assemble_hyps with the lowest score first.
assemble_hyps_ascending(ended) ==
  LET sorted == SortDesc(ended)
      n == Len(sorted)
  IN  IF n = 0
      THEN [raised |-> "NameError", value |-> RetUnset, ended |-> ended]
      ELSE [raised |-> "none",
            value |-> RetList([i \in 1..n |-> sorted[n + 1 - i]]),
            ended |-> ended]

\* assemble_hyps sorting the list it is given in place.
assemble_hyps_in_place(ended) ==
  LET sorted == SortDesc(ended)
  IN  IF Len(sorted) = 0
      THEN [raised |-> "NameError", value |-> RetUnset, ended |-> sorted]
      ELSE [raised |-> "none", value |-> RetList(sorted), ended |-> sorted]

\* assemble_hyps, lines 228-256: the result, and the list it was given as the
\* call leaves it (sorted() builds a new list).  With no completed hypothesis the return
\* expression reads minlenratio, x and maxlenratio, which are names of
\* forward and not of assemble_hyps: evaluating it raises NameError.
assemble_hyps(ended) ==
  LET sorted == SortDesc(ended)
  IN  IF Len(sorted) = 0
      THEN [raised |-> "NameError", value |-> RetUnset, ended |-> ended]
      ELSE [raised |-> "none", value |-> RetList(sorted), ended |-> ended]

\* The lines after the step loop with a rollback of two positions.
BlockTailTwoBack(running, prev, idx, ended, fin) ==
  IF fin
  THEN [running |-> running, prev |-> prev, idx |-> idx,
        out |-> assemble_hyps(ended)]
  ELSE IF idx > 1 /\ Len(prev.hyps) > 0
       THEN [running |-> prev, prev |-> SomeHyps(<<>>), idx |-> idx - 2,
             out |-> [raised |-> "none", value |-> RetNone]]
       ELSE [running |-> running, prev |-> prev, idx |-> idx,
             out |-> [raised |-> "none", value |-> RetNone]]

\* process_one_block, lines 216-225: after the step loop.
BlockTail(running, prev, idx, ended, fin) ==
  IF fin
  THEN [running |-> running, prev |-> prev, idx |-> idx,
        out |-> assemble_hyps(ended)]
  ELSE IF idx > 1 /\ Len(prev.hyps) > 0
       THEN [running |-> prev, prev |-> SomeHyps(<<>>), idx |-> idx - 1,
             out |-> [raised |-> "none", value |-> RetNone]]
       ELSE [running |-> running, prev |-> prev, idx |-> idx,
             out |-> [raised |-> "none", value |-> RetNone]]

\* process_one_block, lines 155-214: one iteration of the step loop, with the
\* lines after the loop when the iteration leaves it by break, from the
\* fields and arguments given.
StepOf(self_eos, running, prev, ended, idx, ml, mlr, fin, beam, disabled, vecs) ==
  LET b0 == search(running.hyps, vecs, beam)
      lastpos == idx = ml - 1
      pp1 == post_process(self_eos, idx, ml, b0, ended)
      b1 == IF lastpos THEN pp1.batch ELSE b0
      run1 == IF lastpos THEN SomeHyps(pp1.remained) ELSE running
      end1 == IF lastpos THEN pp1.ended ELSE ended
      local_ended_hyps == SelectSeq(b1, LAMBDA x: IsEos(self_eos, x))
      pp2 == post_process(self_eos, idx, ml, b1, end1)
      end2 == IF fin THEN pp2.ended \o local_ended_hyps ELSE pp2.ended
      tail == BlockTail(run1, prev, idx, end1, fin)
  IN  IF PrevRepeat(b1, fin, disabled)
      THEN [exit |-> "break", best |-> b1, running |-> tail.running,
            prev |-> tail.prev, ended |-> end1, idx |-> tail.idx, out |-> tail.out]
      ELSE IF fin /\ mlr = 0 /\ end_detect(end1, idx)
      THEN [exit |-> "end_detect", best |-> b1, running |-> run1,
            prev |-> prev, ended |-> end1, idx |-> idx,
            out |-> assemble_hyps(end1)]
      ELSE IF Len(local_ended_hyps) > 0 /\ ~fin
      THEN [exit |-> "break", best |-> b1, running |-> tail.running,
            prev |-> tail.prev, ended |-> end1, idx |-> tail.idx, out |-> tail.out]
      ELSE IF Len(pp2.remained) = 0
      THEN [exit |-> "no_hyp", best |-> pp2.batch, running |-> SomeHyps(pp2.remained),
            prev |-> run1, ended |-> end2, idx |-> idx,
            out |-> assemble_hyps(end2)]
      ELSE [exit |-> "continue", best |-> pp2.batch, running |-> SomeHyps(pp2.remained),
            prev |-> run1, ended |-> end2, idx |-> idx + 1,
            out |-> [raised |-> "none", value |-> RetUnset]]

\* The iteration on the fields of the object and the arguments of the call.
StepOutcome(self_eos, vecs) ==
  StepOf(self_eos, running_hyps, prev_hyps, ended_hyps, process_idx, maxlen, maxlenratio,
         block_is_final, beam_size, disable_repetition_detection, vecs)

\* forward, lines 145-148: process_one_block has returned (or raised).
BlockReturns(out) ==
  IF out.raised # "none"
  THEN /\ pc' = "idle"
       /\ err' = out.raised
       /\ ret' = RetUnset
       /\ UNCHANGED processed_block
  ELSE /\ processed_block' = processed_block + 1
       /\ err' = "none"
       /\ IF block_is_final
          THEN pc' = "idle" /\ ret' = out.value
          ELSE pc' = "loop" /\ ret' = RetUnset


(***************************************************************************)
(* The state after construction: __init__ calls reset() and stores its     *)
(* arguments.                                                              *)
(***************************************************************************)
ResetState ==
  /\ encbuffer' = NoneBuf
  /\ running_hyps' = NoneHyps
  /\ prev_hyps' = SomeHyps(<<>>)
  /\ ended_hyps' = <<>>
  /\ processed_block' = 0
  /\ process_idx' = 0

\* No score_full call has been made.
NoScoring ==
  /\ decoder_text_length_limit = 0 /\ spc = "idle"
  /\ hyp_yseq = <<>> /\ batch_score_arg = <<>> /\ score_err = "none"

\* No updater exists.
NoTraining ==
  /\ updater = "none" /\ accum_grad = 1 /\ count = 0
  /\ grads = "none" /\ batch_grad = "none" /\ last_call = "none"

\* No transducer search is running.
NoSearch ==
  /\ search_type = "default" /\ recog_beam = 1 /\ nbest = 1 /\ nstep = 1
  /\ u_max = 0 /\ prefix_alpha = 0 /\ normscore = FALSE
  /\ rnnlm = FALSE /\ lm_weight = 0 /\ h_length = 0
  /\ tpc = "idle" /\ ti = 0 /\ vn = 0
  /\ kept_hyps = <<>> /\ hyps = <<>> /\ B = <<>> /\ A = <<>> /\ C = <<>>
  /\ D = <<>> /\ S = <<>> /\ V = <<>> /\ final = <<>>
  /\ nbest_hyps = <<>>
  /\ new_hyp = <<>> /\ ytu = <<>> /\ rnnlm_scores = <<>>

\* No online session exists.
NoSession ==
  /\ block_size = 1 /\ hop_size = 1 /\ look_ahead = 0
  /\ disable_repetition_detection = FALSE
  /\ encoded_feat_length_limit = 0 /\ beam_size = 1
  /\ encbuffer = NoneBuf
  /\ running_hyps = NoneHyps
  /\ prev_hyps = SomeHyps(<<>>)
  /\ ended_hyps = <<>>
  /\ processed_block = 0
  /\ process_idx = 0
  /\ pc = "idle"
  /\ maxlenratio = 0 /\ minlenratio = 0 /\ is_final = FALSE
  /\ maxlen = 0 /\ minlen = 0
  /\ cur_end_frame = 0 /\ h = <<>> /\ block_is_final = FALSE
  /\ best = <<>> /\ truncated = FALSE /\ exit = "none"
  /\ ret = RetUnset /\ err = "none"
  /\ ncalls = 0 /\ nsteps = 0 /\ blocksteps = 0 /\ lastx = 0

InitOnline ==
  /\ NoSearch /\ NoScoring /\ NoTraining
  /\ block_size \in BlockSizes
  /\ hop_size \in HopSizes
  /\ look_ahead \in LookAheads
  /\ disable_repetition_detection \in BOOLEAN
  /\ encoded_feat_length_limit \in FeatLimits
  /\ beam_size \in BeamSizes
  /\ encbuffer = NoneBuf
  /\ running_hyps = NoneHyps
  /\ prev_hyps = SomeHyps(<<>>)
  /\ ended_hyps = <<>>
  /\ processed_block = 0
  /\ process_idx = 0
  /\ pc = "idle"
  /\ maxlenratio = 0 /\ minlenratio = 0 /\ is_final = FALSE
  /\ maxlen = 0 /\ minlen = 0
  /\ cur_end_frame = 0 /\ h = <<>> /\ block_is_final = FALSE
  /\ best = <<>> /\ truncated = FALSE /\ exit = "none"
  /\ ret = RetUnset /\ err = "none"
  /\ ncalls = 0 /\ nsteps = 0 /\ blocksteps = 0 /\ lastx = 0

\* reset(), lines 52-59.
Reset ==
  /\ pc = "idle"
  /\ UNCHANGED <<tvars, othervars>>
  /\ ~encbuffer.isNone
  /\ ResetState
  /\ nsteps' = 0 /\ blocksteps' = 0 /\ lastx' = 0
  /\ maxlenratio' = 0 /\ minlenratio' = 0 /\ is_final' = FALSE
  /\ maxlen' = 0 /\ minlen' = 0
  /\ cur_end_frame' = 0 /\ h' = <<>> /\ block_is_final' = FALSE
  /\ best' = <<>> /\ truncated' = FALSE /\ exit' = "none"
  /\ ret' = RetUnset /\ err' = "none"
  /\ UNCHANGED <<cfgvars, pc, ncalls>>

\* forward, lines 109-124: the new frames join the buffer and the length
\* bounds are set.  The n frames of call c carry the tag c.
Forward(n, mlr, mnr, fin) ==
  /\ pc = "idle"
  /\ UNCHANGED <<tvars, othervars>>
  /\ ncalls < MaxCalls
  /\ Len(encbuffer.frames) + n <= MaxFrames
  /\ LET x == [i \in 1..n |-> ncalls + 1]
         buf == BufferAfter(encbuffer, x)
     IN  /\ encbuffer' = SomeBuf(buf)
         /\ maxlen' = MaxLenOf(mlr, Len(buf))
         /\ minlen' = MinLenOf(mnr, Len(buf))
  /\ maxlenratio' = mlr
  /\ minlenratio' = mnr
  /\ is_final' = fin
  /\ pc' = "loop"
  /\ ret' = RetUnset
  /\ err' = "none"
  /\ ncalls' = ncalls + 1
  /\ lastx' = n
  /\ nsteps' = IF is_final THEN 0 ELSE nsteps
  /\ cur_end_frame' = 0 /\ h' = <<>> /\ block_is_final' = FALSE
  /\ best' = <<>> /\ truncated' = FALSE /\ exit' = "none"
  /\ UNCHANGED <<cfgvars, running_hyps, prev_hyps, ended_hyps, processed_block,
                 process_idx, blocksteps>>

\* forward, lines 126-145: one pass through the head of the block loop, up
\* to the call of process_one_block (whose first line, extend, only feeds
\* the scorers).
BlockLoop ==
  /\ pc = "loop"
  /\ UNCHANGED <<tvars, othervars>>
  /\ processed_block < MaxBlocks
  /\ LET x == encbuffer.frames
         cef == CurEndFrame(block_size, look_ahead, hop_size, processed_block)
         inside == cef < Len(x)
         h0 == IF inside THEN Narrow(x, 0, cef) ELSE x
         trunc == NeedsTruncation(encoded_feat_length_limit, h0)
         h1 == IF trunc
               THEN Narrow(h0, Len(h0) - encoded_feat_length_limit,
                           encoded_feat_length_limit)
               ELSE h0
     IN  /\ cur_end_frame' = cef
         /\ IF inside /\ ~NarrowOk(x, 0, cef)
            THEN \* x.narrow raises
                 /\ pc' = "idle" /\ err' = "RuntimeError"
                 /\ UNCHANGED <<running_hyps, h, block_is_final, truncated, ret,
                                blocksteps>>
            ELSE IF ~inside /\ ~is_final
            THEN \* break: forward returns None
                 /\ pc' = "idle" /\ ret' = RetNone
                 /\ UNCHANGED <<running_hyps, h, block_is_final, truncated, err,
                                blocksteps>>
            ELSE IF trunc /\ running_hyps.isNone
            THEN \* None has no attribute states
                 /\ pc' = "idle" /\ err' = "AttributeError"
                 /\ h' = h1 /\ block_is_final' = ~inside /\ truncated' = TRUE
                 /\ UNCHANGED <<running_hyps, ret, blocksteps>>
            ELSE /\ pc' = "block"
                 /\ h' = h1 /\ block_is_final' = ~inside /\ truncated' = trunc
                 /\ running_hyps' =
                      IF running_hyps.isNone THEN SomeHyps(init_hyp(h1))
                      ELSE IF trunc THEN SomeHyps(ResetDecoderStates(running_hyps.hyps))
                      ELSE running_hyps
                 /\ blocksteps' = 0
                 /\ UNCHANGED <<ret, err>>
  /\ UNCHANGED <<cfgvars, encbuffer, prev_hyps, ended_hyps, processed_block,
                 process_idx, maxlenratio, minlenratio, is_final, maxlen, minlen,
                 best, exit, ncalls, nsteps, lastx>>

\* process_one_block, lines 154-225: one iteration of the step loop, the
\* scorers giving vecs[i] for the i-th running hypothesis.
SearchStepWith(self_eos, vecs) ==
  /\ pc = "block"
  /\ UNCHANGED <<tvars, othervars>>
  /\ LoopCond(process_idx, maxlen)
  /\ LET o == StepOutcome(self_eos, vecs)
     IN  /\ running_hyps' = o.running
         /\ prev_hyps' = o.prev
         /\ ended_hyps' = o.ended
         /\ process_idx' = o.idx
         /\ best' = o.best
         /\ exit' = o.exit
         /\ IF o.exit = "continue"
            THEN UNCHANGED <<pc, ret, err, processed_block>>
            ELSE BlockReturns(o.out)
  /\ nsteps' = nsteps + 1
  /\ blocksteps' = blocksteps + 1
  /\ UNCHANGED <<cfgvars, encbuffer, maxlenratio, minlenratio, is_final, maxlen,
                 minlen, cur_end_frame, h, block_is_final, truncated, ncalls,
                 lastx>>

\* The iteration with scorers that may give any of the vectors.
SearchStep ==
  \E vecs \in [1..Len(running_hyps.hyps) -> PVecs]: SearchStepWith(eos, vecs)

\* process_one_block, lines 154 and 216-225: the step budget is used up.
BlockExit ==
  /\ pc = "block"
  /\ UNCHANGED <<tvars, othervars>>
  /\ ~LoopCond(process_idx, maxlen)
  /\ LET t == BlockTail(running_hyps, prev_hyps, process_idx, ended_hyps,
                        block_is_final)
     IN  /\ running_hyps' = t.running
         /\ prev_hyps' = t.prev
         /\ process_idx' = t.idx
         /\ BlockReturns(t.out)
  /\ exit' = "budget"
  /\ UNCHANGED <<cfgvars, encbuffer, ended_hyps, maxlenratio, minlenratio,
                 is_final, maxlen, minlen, cur_end_frame, h, block_is_final, best,
                 truncated, histvars>>

Next ==
  \/ \E n \in 0..MaxFrames, mlr \in MaxLenRatios, mnr \in MinLenRatios,
        fin \in BOOLEAN: Forward(n, mlr, mnr, fin)
  \/ BlockLoop
  \/ SearchStep
  \/ BlockExit
  \/ Reset

Spec == InitOnline /\ [][Next]_vars


(***************************************************************************)
(* Transducer search (transducer/search.py).                               *)
(*                                                                         *)
(* The decoder has odim output ids, id blank among them.  A vector of      *)
(* log-probabilities over the ids 0..odim-1 is a sequence read at k + 1.   *)
(***************************************************************************)
blank == 0
odim == 3

MaxT == 2            \* frames of an encoder output at most

SearchTypes == {"default", "nsc", "tsd", "alsd", "other"}
RecogBeams == {1, 2, 4}
NBests == {1, 2}
NSteps == {1, 2}
UMaxes == {1, 2}
PrefixAlphas == {1, 2}
LmWeights == {2}

\* What log_softmax(decoder.joint(hi, y)) may be.
TVecs == { <<-1, -2, -3>>, <<-3, -1, -2>> }

At(v, k) == v[k + 1]

\* rnnlm.predict: the language model's log-probabilities of the next id, a
\* function of the history (here of its last id).
LmPredict(yseq) == [j \in 1..odim |-> 0 - (1 + ((SeqLast(yseq) + j) % 2))]

THyp(y, sc) == [yseq |-> y, score |-> sc]

\* numpy.logaddexp in score units of log 2, rounded down: equal scores add
\* up to one unit more, otherwise the larger one stays.
LogAddExp(a, b) == IF a = b THEN a + 1 ELSE Max(a, b)

\* Stable sort of s, highest key first; key[i] is the key of s[i].
RECURSIVE InsertKeyDesc(_, _)
InsertKeyDesc(s, e) ==
  IF s = <<>> THEN <<e>>
  ELSE IF SeqLast(s).key >= e.key THEN Append(s, e)
  ELSE Append(InsertKeyDesc(SubSeq(s, 1, Len(s) - 1), e), SeqLast(s))

RECURSIVE SortKeyDesc(_)
SortKeyDesc(s) ==
  IF s = <<>> THEN <<>>
  ELSE InsertKeyDesc(SortKeyDesc(SubSeq(s, 1, Len(s) - 1)), SeqLast(s))

\* sorted(s, key=lambda x: x["score"] / len(x["yseq"]), reverse=True): the
\* quotients are compared exactly, over the common denominator 2520 of the
\* lengths 1..10.
SortNormDesc(s) ==
  LET keyed == [i \in 1..Len(s) |->
                 [key |-> (s[i].score * 2520) \div Len(s[i].yseq), val |-> s[i]]]
      sorted == SortKeyDesc(keyed)
  IN  [i \in 1..Len(s) |-> sorted[i].val]

\* sorted(s, key=lambda x: len(x["yseq"]), reverse=True)
SortLenDesc(s) ==
  LET keyed == [i \in 1..Len(s) |-> [key |-> Len(s[i].yseq), val |-> s[i]]]
      sorted == SortKeyDesc(keyed)
  IN  [i \in 1..Len(s) |-> sorted[i].val]

\* max(hyps, key=lambda x: x["score"]): the first entry of highest score.
MaxIndex(s) ==
  CHOOSE i \in 1..Len(s):
    /\ \A j \in 1..Len(s): s[j].score <= s[i].score
    /\ \A j \in 1..(i - 1): s[j].score < s[i].score

RemoveAt(s, i) == SubSeq(s, 1, i - 1) \o SubSeq(s, i + 1, Len(s))

\* torch.max(ytu, dim=0): the id of the highest log-probability.
ArgMax(v) ==
  CHOOSE k \in 0..(odim - 1):
    /\ \A j \in 0..(odim - 1): At(v, j) <= At(v, k)
    /\ \A j \in 0..(k - 1): At(v, j) < At(v, k)

\* The width of the beam without the vocabulary size.
BeamRangeWide(beam) == beam

\* Lines 64, 155, 255, 351: the width of the beam.
BeamRange(beam) == Min(beam, odim)

\* The hypothesis every search starts from.
InitHyp == THyp(<<blank>>, 0)

\* The arguments a strategy never reads stay at their defaults; rnnlm is
\* an argument of search_interface, given or not whatever beam_size is.
ArgsRead ==
  LET st == IF recog_beam = 1 THEN "greedy" ELSE search_type
  IN  /\ st \in {"greedy", "other"} => nbest = 1
      /\ st = "other" => ~rnnlm
      /\ st \notin {"tsd", "nsc"} => nstep = 1
      /\ st # "alsd" => u_max = 1
      /\ st # "default" => ~normscore
      /\ rnnlm => lm_weight \in LmWeights
      /\ ~rnnlm => lm_weight = 0

InitTransducer ==
  /\ NoSession /\ NoScoring /\ NoTraining
  /\ search_type \in SearchTypes
  /\ recog_beam \in RecogBeams
  /\ nbest \in NBests
  /\ nstep \in NSteps
  /\ u_max \in UMaxes
  /\ prefix_alpha \in PrefixAlphas
  /\ normscore \in BOOLEAN
  /\ rnnlm \in BOOLEAN
  /\ lm_weight \in LmWeights \cup {0}
  /\ h_length \in 1..MaxT
  /\ ArgsRead
  /\ tpc = "idle" /\ ti = 0 /\ vn = 0
  /\ kept_hyps = <<>> /\ hyps = <<>> /\ B = <<>> /\ A = <<>> /\ C = <<>>
  /\ D = <<>> /\ S = <<>> /\ V = <<>> /\ final = <<>>
  /\ nbest_hyps = <<>>
  /\ new_hyp = <<>> /\ ytu = <<>> /\ rnnlm_scores = <<>>

\* search_interface, lines 549-560: the strategy that runs.
Dispatch(beam, st) ==
  IF beam = 1 THEN "greedy"
  ELSE IF st \in {"default", "nsc", "tsd", "alsd"} THEN st
  ELSE "NotImplementedError"

\* search_interface with the first lines of the strategy it selects, up to
\* the loop over the encoder frames.
SearchInterface ==
  /\ tpc = "idle"
  /\ LET run == Dispatch(recog_beam, search_type)
     IN  /\ tpc' = IF run = "NotImplementedError" THEN "raised" ELSE run
         /\ hyps' = IF run = "greedy" THEN <<InitHyp>> ELSE <<>>
         /\ kept_hyps' = IF run \in {"default", "nsc"} THEN <<InitHyp>> ELSE <<>>
         /\ B' = IF run \in {"tsd", "alsd"} THEN <<InitHyp>> ELSE <<>>
  /\ ti' = 0 /\ vn' = 0
  /\ UNCHANGED <<onlinevars, othervars,
                 argvars, A, C, D, S, V, final, nbest_hyps, lastvars>>

(***************************************************************************)
(* greedy_search, lines 15-47.  The one hypothesis is hyps[1].             *)
(***************************************************************************)
GreedyFrame ==
  /\ tpc = "greedy"
  /\ ti < h_length
  /\ \E v \in TVecs:
       LET pred == ArgMax(v)
           hyp == hyps[1]
       IN  /\ hyps' = IF pred # blank
                      THEN <<THyp(Append(hyp.yseq, pred), hyp.score + At(v, pred))>>
                      ELSE hyps
           /\ ytu' = v
           /\ new_hyp' = hyp
  /\ ti' = ti + 1
  /\ UNCHANGED <<onlinevars, othervars,
                 argvars, tpc, vn, kept_hyps, B, A, C, D, S, V, final,
                 nbest_hyps, rnnlm_scores>>

GreedyReturn ==
  /\ tpc = "greedy"
  /\ ti = h_length
  /\ nbest_hyps' = hyps
  /\ tpc' = "done"
  /\ UNCHANGED <<onlinevars, othervars, argvars, ti, vn, listvars, lastvars>>

(***************************************************************************)
(* default_beam_search, lines 50-136.                                      *)
(***************************************************************************)

\* The hypothesis made from new_hyp by id k without the language model.
BeamHypNoLm(parent, v, lm, k) ==
  IF k = blank
  THEN THyp(parent.yseq, parent.score + At(v, k))
  ELSE THyp(Append(parent.yseq, k), parent.score + At(v, k))

\* Lines 99-120: the hypothesis made from new_hyp by id k.
BeamHyp(parent, v, lm, k) ==
  IF k = blank
  THEN THyp(parent.yseq, parent.score + At(v, k))
  ELSE THyp(Append(parent.yseq, k),
            IF rnnlm THEN parent.score + At(v, k) + lm_weight * At(lm, k)
            ELSE parent.score + At(v, k))

\* Lines 123-125: len(sorted(kept_hyps, key=...)) is the length of kept_hyps.
KeptMostProb(kept, hyps_max) == Len(kept)

\* Lines 129-134.
DefaultNBest(kept, norm, n) ==
  IF norm THEN Take(SortNormDesc(kept), n) ELSE Take(SortDesc(kept), n)

\* Lines 82-84, and 129-136 when the frames are used up.
DefaultFrame ==
  /\ tpc = "default"
  /\ IF ti < h_length
     THEN /\ hyps' = kept_hyps
          /\ kept_hyps' = <<>>
          /\ tpc' = "default_while"
          /\ UNCHANGED nbest_hyps
     ELSE /\ nbest_hyps' = DefaultNBest(kept_hyps, normscore, nbest)
          /\ tpc' = "done"
          /\ UNCHANGED <<hyps, kept_hyps>>
  /\ UNCHANGED <<onlinevars, othervars,
                 argvars, ti, vn, B, A, C, D, S, V, final, lastvars>>

\* Lines 86-127: one pass of the while loop.
DefaultExpand ==
  /\ tpc = "default_while"
  /\ \E v \in TVecs:
       LET m == MaxIndex(hyps)
           parent == hyps[m]
           lm == IF rnnlm THEN LmPredict(parent.yseq) ELSE <<>>
           kept1 == Append(kept_hyps, BeamHyp(parent, v, lm, blank))
           hyps1 == RemoveAt(hyps, m)
                    \o [j \in 1..(odim - 1) |-> BeamHyp(parent, v, lm, j)]
           hyps_max == hyps1[MaxIndex(hyps1)].score
       IN  /\ kept_hyps' = kept1
           /\ hyps' = hyps1
           /\ new_hyp' = parent
           /\ ytu' = v
           /\ rnnlm_scores' = lm
           /\ IF KeptMostProb(kept1, hyps_max) >= BeamRange(recog_beam)
              THEN tpc' = "default" /\ ti' = ti + 1
              ELSE UNCHANGED <<tpc, ti>>
  /\ UNCHANGED <<onlinevars, othervars,
                 argvars, vn, B, A, C, D, S, V, final, nbest_hyps>>


\* The search for a sequence that finds none.
SeqIndexNone(s, y) == 0

\* The first position of a hypothesis with the sequence y in s, or 0.
SeqIndex(s, y) ==
  IF \E i \in 1..Len(s): s[i].yseq = y
  THEN CHOOSE i \in 1..Len(s):
         s[i].yseq = y /\ \A j \in 1..(i - 1): s[j].yseq # y
  ELSE 0

\* Lines 212-226, 309-320: the hypothesis made from hyp by the non-blank id k.
Emit(hyp, v, k) ==
  THyp(Append(hyp.yseq, k),
       IF rnnlm
       THEN hyp.score + At(v, k) + lm_weight * At(LmPredict(hyp.yseq), k)
       ELSE hyp.score + At(v, k))

(***************************************************************************)
(* time_sync_decoding, lines 139-236.                                      *)
(***************************************************************************)

\* Lines 180-228: the loop over the hypotheses of C, from the i-th on.
RECURSIVE TsdExpand(_, _, _, _, _)
TsdExpand(Cs, vecs, i, As, Ds) ==
  IF i > Len(Cs) THEN [A |-> As, D |-> Ds]
  ELSE LET hyp == Cs[i]
           v == vecs[i]
           pos == SeqIndex(As, hyp.yseq)
           A1 == IF pos = 0
                 THEN Append(As, THyp(hyp.yseq, hyp.score + At(v, 0)))
                 ELSE [As EXCEPT ![pos].score = LogAddExp(@, hyp.score + At(v, 0))]
           D1 == Ds \o [k \in 1..(odim - 1) |-> Emit(hyp, v, k)]
       IN  TsdExpand(Cs, vecs, i + 1, A1, D1)

\* Lines 173-175, and 234-236 when the frames are used up.
TsdFrame ==
  /\ tpc = "tsd"
  /\ IF ti < h_length
     THEN /\ A' = <<>>
          /\ C' = B
          /\ vn' = 0
          /\ tpc' = "tsd_v"
          /\ UNCHANGED nbest_hyps
     ELSE /\ nbest_hyps' = Take(SortDesc(B), nbest)
          /\ tpc' = "done"
          /\ UNCHANGED <<A, C, vn>>
  /\ UNCHANGED <<onlinevars, othervars,
                 argvars, ti, kept_hyps, hyps, B, D, S, V, final,
                 lastvars>>

\* Lines 177-232: one pass of the loop over v, with line 232 after the last.
TsdRound ==
  /\ tpc = "tsd_v"
  /\ vn < nstep
  /\ \E vecs \in [1..Len(C) -> TVecs]:
       LET r == TsdExpand(C, vecs, 1, A, <<>>)
       IN  /\ A' = r.A
           /\ D' = r.D
           /\ C' = Take(SortDesc(r.D), BeamRange(recog_beam))
           /\ IF vn + 1 < nstep
              THEN UNCHANGED <<B, ti, tpc>>
              ELSE /\ B' = Take(SortDesc(r.A), BeamRange(recog_beam))
                   /\ ti' = ti + 1
                   /\ tpc' = "tsd"
  /\ vn' = vn + 1
  /\ UNCHANGED <<onlinevars, othervars,
                 argvars, kept_hyps, hyps, S, V, final, nbest_hyps,
                 lastvars>>

(***************************************************************************)
(* align_length_sync_decoding, lines 239-332.                              *)
(***************************************************************************)

\* Line 258.
AlsdUMax(um, hl) == Min(um, hl - 1)

\* Line 282: the frame a hypothesis of output length u is scored against at
\* iteration i.
AlsdFrameOf(i, u) == i - u + 1

\* Lines 280-322: the loop over the hypotheses of B, from the n-th on.  An
\* entry of A that is also an entry of final (the same object) carries its
\* position there in fin.
RECURSIVE AlsdExpand(_, _, _, _, _, _)
AlsdExpand(Bs, vecs, i, n, As, Fs) ==
  IF n > Len(Bs) THEN [A |-> As, final |-> Fs]
  ELSE LET hyp == Bs[n]
           v == vecs[n]
           u == Len(hyp.yseq) - 1
           t == AlsdFrameOf(i, u)
           last == t = h_length - 1
           nh == THyp(hyp.yseq, hyp.score + At(v, 0))
           F1 == IF last THEN Append(Fs, nh) ELSE Fs
           nhA == [yseq |-> nh.yseq, score |-> nh.score,
                   fin |-> IF last THEN Len(F1) ELSE 0]
           kids == [k \in 1..(odim - 1) |->
                     LET e == Emit(hyp, v, k)
                     IN  [yseq |-> e.yseq, score |-> e.score, fin |-> 0]]
       IN  IF t > h_length - 1
           THEN AlsdExpand(Bs, vecs, i, n + 1, As, Fs)
           ELSE AlsdExpand(Bs, vecs, i, n + 1, Append(As, nhA) \o kids, F1)

\* recombine_hyps: hypotheses of one sequence become one, the first, whose
\* score becomes the log-sum-exp of their scores.
RECURSIVE RecombineFrom(_, _, _)
RecombineFrom(hs, n, acc) ==
  IF n > Len(hs) THEN acc
  ELSE LET pos == SeqIndex(acc, hs[n].yseq)
       IN  RecombineFrom(hs, n + 1,
             IF pos = 0 THEN Append(acc, hs[n])
             ELSE [acc EXCEPT ![pos].score = LogAddExp(@, hs[n].score)])

recombine_hyps(hs) == RecombineFrom(hs, 1, <<>>)

\* The scores recombine_hyps wrote into objects that final holds too.
RECURSIVE WriteBack(_, _, _)
WriteBack(Fs, merged, n) ==
  IF n > Len(merged) THEN Fs
  ELSE WriteBack(IF merged[n].fin = 0 THEN Fs
                 ELSE [Fs EXCEPT ![merged[n].fin].score = merged[n].score],
                 merged, n + 1)

\* Lines 327-330.
AlsdNBest(fs, bs, n) == IF fs # <<>> THEN Take(SortDesc(fs), n) ELSE Take(bs, n)

\* Lines 277-325: one pass of the loop over i.
AlsdIter ==
  /\ tpc = "alsd"
  /\ ti < h_length + AlsdUMax(u_max, h_length)
  /\ \E vecs \in [1..Len(B) -> TVecs]:
       LET r == AlsdExpand(B, vecs, ti, 1, <<>>, final)
           merged == recombine_hyps(Take(SortDesc(r.A), BeamRange(recog_beam)))
       IN  /\ A' = [n \in 1..Len(r.A) |-> THyp(r.A[n].yseq, r.A[n].score)]
           /\ B' = [n \in 1..Len(merged) |-> THyp(merged[n].yseq, merged[n].score)]
           /\ final' = WriteBack(r.final, merged, 1)
  /\ ti' = ti + 1
  /\ UNCHANGED <<onlinevars, othervars,
                 argvars, tpc, vn, kept_hyps, hyps, C, D, S, V,
                 nbest_hyps, lastvars>>

AlsdReturn ==
  /\ tpc = "alsd"
  /\ ti = h_length + AlsdUMax(u_max, h_length)
  /\ nbest_hyps' = AlsdNBest(final, B, nbest)
  /\ tpc' = "done"
  /\ UNCHANGED <<onlinevars, othervars, argvars, ti, vn, listvars, lastvars>>

(***************************************************************************)
(* nsc_beam_search, lines 335-530.                                         *)
(***************************************************************************)

\* is_prefix: pref is a proper prefix of x.
is_prefix(x, pref) ==
  /\ Len(pref) < Len(x)
  /\ \A n \in 1..Len(pref): pref[n] = x[n]

\* substract: the hypotheses of x whose sequence no hypothesis of subset has.
substract(x, subset) ==
  SelectSeq(x, LAMBDA e: \A n \in 1..Len(subset): subset[n].yseq # e.yseq)

\* Lines 416-419: the log-probabilities of the ids k+1.. of yseq, from id
\* position from on (positions counted from 0), each read from w.
RECURSIVE PrefixTail(_, _, _)
PrefixTail(yseq, from, w) ==
  IF from >= Len(yseq) - 1 THEN 0
  ELSE At(w, yseq[from + 2]) + PrefixTail(yseq, from + 1, w)

\* Lines 404-421 for the pair (j, i) of positions of hs: the score of hs[j]
\* after it.  pv[i] is the joint output for hs[i], w the one of the inner loop.
PrefixScore(hs, j, i, pv, w) ==
  IF /\ is_prefix(hs[j].yseq, hs[i].yseq)
     /\ Len(hs[j].yseq) - Len(hs[i].yseq) <= prefix_alpha
  THEN LET next_id == Len(hs[i].yseq)
           curr_score == hs[i].score + At(pv[i], hs[j].yseq[next_id + 1])
                         + PrefixTail(hs[j].yseq, next_id, w)
       IN  LogAddExp(hs[j].score, curr_score)
  ELSE hs[j].score

\* Lines 402-421: the two loops, from the pair (j, i) on.
RECURSIVE PrefixMerge(_, _, _, _, _)
PrefixMerge(hs, j, i, pv, w) ==
  IF j > Len(hs) - 1 THEN hs
  ELSE IF i > Len(hs) THEN PrefixMerge(hs, j + 1, j + 2, pv, w)
  ELSE PrefixMerge([hs EXCEPT ![j].score = PrefixScore(hs, j, i, pv, w)],
                   j, i + 1, pv, w)

\* Lines 399-424, and 526-530 when the frames are used up.
NscFrame ==
  /\ tpc = "nsc"
  /\ IF ti < h_length
     THEN /\ \E pv \in [1..Len(kept_hyps) -> TVecs], w \in TVecs:
               hyps' = PrefixMerge(SortLenDesc(kept_hyps), 1, 2, pv, w)
          /\ kept_hyps' = <<>>
          /\ S' = <<>>
          /\ V' = <<>>
          /\ vn' = 0
          /\ tpc' = "nsc_n"
          /\ UNCHANGED nbest_hyps
     ELSE /\ nbest_hyps' = Take(SortNormDesc(kept_hyps), nbest)
          /\ tpc' = "done"
          /\ UNCHANGED <<hyps, kept_hyps, S, V, vn>>
  /\ UNCHANGED <<onlinevars, othervars,
                 argvars, ti, B, A, C, D, final, lastvars>>

\* Lines 443-471: the blank expansions of the hypotheses of hs.
NscBlanks(hs, vecs) ==
  [i \in 1..Len(hs) |-> THyp(hs[i].yseq, hs[i].score + At(vecs[i], blank))]

\* Lines 443-471: the non-blank expansions of the hypotheses of hs, from the
\* i-th on.
RECURSIVE NscEmits(_, _, _)
NscEmits(hs, vecs, i) ==
  IF i > Len(hs) THEN <<>>
  ELSE [k \in 1..(odim - 1) |-> Emit(hs[i], vecs[i], k)]
       \o NscEmits(hs, vecs, i + 1)

\* Lines 508-510: the blank score added after the last step.
NscClose(vs, bvecs) ==
  [i \in 1..Len(vs) |->
    IF nstep # 1 THEN THyp(vs[i].yseq, vs[i].score + At(bvecs[i], blank))
    ELSE vs[i]]

\* Lines 425-524: one pass of the loop over n, with line 524 after the last.
NscStep ==
  /\ tpc = "nsc_n"
  /\ vn < nstep
  /\ \E vecs \in [1..Len(hyps) -> TVecs]:
       LET S1 == S \o NscBlanks(hyps, vecs)
           V1 == Take(substract(SortDesc(V \o NscEmits(hyps, vecs, 1)), hyps),
                      BeamRange(recog_beam))
       IN  /\ S' = S1
           /\ IF vn < nstep - 1
              THEN /\ V' = V1
                   /\ hyps' = V1
                   /\ UNCHANGED <<kept_hyps, ti, tpc>>
              ELSE \E bvecs \in [1..Len(V1) -> TVecs]:
                     /\ V' = NscClose(V1, bvecs)
                     /\ kept_hyps' = Take(SortDesc(S1 \o NscClose(V1, bvecs)),
                                          BeamRange(recog_beam))
                     /\ ti' = ti + 1
                     /\ tpc' = "nsc"
                     /\ UNCHANGED hyps
  /\ vn' = vn + 1
  /\ UNCHANGED <<onlinevars, othervars,
                 argvars, B, A, C, D, final, nbest_hyps, lastvars>>

NextTransducer ==
  \/ SearchInterface
  \/ GreedyFrame
  \/ GreedyReturn
  \/ DefaultFrame
  \/ DefaultExpand
  \/ TsdFrame
  \/ TsdRound
  \/ AlsdIter
  \/ AlsdReturn
  \/ NscFrame
  \/ NscStep

SpecTransducer == InitTransducer /\ [][NextTransducer]_vars

(***************************************************************************)
(* Properties of BatchBeamSearchOnline (under Spec).                       *)
(***************************************************************************)

\* A forward(is_final=True) call has come back to its caller.
FinalCallOver == pc = "idle" /\ is_final

C2_BoundaryMovesForward ==
  (pc = "loop" /\ exit # "none") =>
    CurEndFrame(block_size, look_ahead, hop_size, processed_block) > cur_end_frame

\* C6: when process_one_block leaves the final block with no completed
\* hypothesis (the step budget being at least 1), forward raises no exception:
\* it returns a list, empty or from the retry.
C6_EmptyResultNoException ==
  (pc = "idle" /\ block_is_final /\ exit # "none" /\ maxlen >= 1
     /\ ended_hyps = <<>>) =>
    (err = "none" /\ ret.kind = "list")

\* C7: a forward(is_final=True) call with maxlenratio = 0 on a buffer of zero
\* frames has a step budget of at least 1, raises nothing and returns at least
\* one hypothesis.
C7_ZeroFramesBudget ==
  (FinalCallOver /\ ~encbuffer.isNone /\ Len(encbuffer.frames) = 0
     /\ maxlenratio = 0) =>
    (maxlen >= 1 /\ err = "none" /\ ret.kind = "list" /\ Len(ret.hyps) >= 1)

\* The newest token of the hypothesis equals an earlier token of it.
Repeats(hyp) ==
  \E j \in 1..(Len(hyp.yseq) - 1): hyp.yseq[j] = SeqLast(hyp.yseq)

\* C8: in a non-final block with repetition detection enabled, a search step
\* that the step loop has accepted (running_hyps and process_idx advanced, the
\* block going on) produced no hypothesis whose newest token repeats an
\* earlier one.
C8_RepetitionDefers ==
  (pc = "block" /\ exit = "continue" /\ ~block_is_final
     /\ ~disable_repetition_detection) =>
    \A i \in 1..Len(best): ~Repeats(best[i])

\* C9: the boundary forward slices the buffer at is never negative and the
\* slice raises nothing.
C9_BoundaryInBuffer ==
  /\ cur_end_frame >= 0
  /\ err # "RuntimeError"

\* C10: cutting the visible block to the newest encoded_feat_length_limit
\* frames raises nothing, on the first block of a session as on later ones.
C10_TruncationNoError ==
  truncated => err = "none"

(***************************************************************************)
(* Properties of the transducer search (under SpecTransducer).             *)
(***************************************************************************)

\* C3: a search that has returned has returned at least one hypothesis.
C3_AtLeastOneHypothesis ==
  tpc = "done" => Len(nbest_hyps) >= 1

\* C4: at the start of every encoder frame (alignment iteration for alsd) the
\* hypotheses carried over number at most min(beam_size, vocabulary size):
\* kept_hyps of default_beam_search and nsc_beam_search, B of
\* time_sync_decoding and align_length_sync_decoding.
C4_BeamSizeInvariant ==
  /\ tpc \in {"default", "nsc"} => Len(kept_hyps) <= Min(recog_beam, odim)
  /\ tpc \in {"tsd", "alsd"} => Len(B) <= Min(recog_beam, odim)

\* C4: a frame of time_sync_decoding is over, A held more hypotheses than the
\* beam is wide, and B holds exactly the width.
C4_Witness ==
  /\ tpc = "tsd" /\ ti >= 1
  /\ Len(A) > Min(recog_beam, odim)
  /\ Len(B) = Min(recog_beam, odim)

\* C5: after an expansion in default_beam_search the blank child (the newest
\* entry of kept_hyps) has the parent's sequence and the parent's score plus
\* the joint log-probability of blank, and the child by the non-blank id k
\* (the newest entries of hyps) has the parent's sequence with k appended and
\* the parent's score plus the joint log-probability of k, plus lm_weight
\* times the language model's log-probability of k when a language model is
\* supplied.
C5_ScoreAccumulation ==
  (tpc \in {"default", "default_while"} /\ ytu # <<>> /\ kept_hyps # <<>>) =>
    LET base == Len(hyps) - (odim - 1)
    IN  /\ SeqLast(kept_hyps).yseq = new_hyp.yseq
        /\ SeqLast(kept_hyps).score = new_hyp.score + At(ytu, blank)
        /\ \A k \in 1..(odim - 1):
             /\ hyps[base + k].yseq = Append(new_hyp.yseq, k)
             /\ hyps[base + k].score =
                  IF rnnlm
                  THEN new_hyp.score + At(ytu, k) + lm_weight * At(rnnlm_scores, k)
                  ELSE new_hyp.score + At(ytu, k)

\* C5: an expansion with a language model of a parent that is itself a child.
C5_Witness ==
  /\ tpc \in {"default", "default_while"} /\ ytu # <<>> /\ kept_hyps # <<>>
  /\ rnnlm /\ lm_weight > 0
  /\ Len(new_hyp.yseq) >= 2

\* C11: when recog_args.search_type is none of default, nsc, tsd, alsd,
\* search_interface raises and no search runs, whatever beam_size is.
C11_UnknownTypeRaises ==
  (search_type \notin {"default", "nsc", "tsd", "alsd"} /\ tpc # "idle") =>
    tpc = "raised"

\* C12: a list returned by forward (from assemble_hyps) is in descending
\* order of score and has at most nbest entries, for the largest nbest in use.
C12_OutputContract ==
  (pc = "idle" /\ ret.kind = "list") =>
    /\ \A i \in 1..(Len(ret.hyps) - 1): ret.hyps[i].score >= ret.hyps[i + 1].score
    /\ \E n \in NBests: Len(ret.hyps) <= n

(***************************************************************************)
(* assemble_hyps called on its own (under SpecAssemble): the object holds  *)
(* a list of completed hypotheses, and each call returns what              *)
(* assemble_hyps makes of it.  Here ncalls counts these calls.             *)
(***************************************************************************)

\* Completed hypotheses: sequences ending in eos, some of equal score.
EndedPool ==
  { Hyp(y, sc, "state") : y \in { <<sos, 1, eos>>, <<sos, 2, eos>>, <<sos, 1, 2, eos>> },
                          sc \in { -1, 0 } }

\* The lists of at most MaxEnded different completed hypotheses.
EndedLists ==
  UNION { { q \in [1..n -> EndedPool] : \A i, j \in 1..n: i # j => q[i] # q[j] }
          : n \in 0..MaxEnded }

InitAssemble ==
  /\ NoSearch /\ NoScoring /\ NoTraining
  /\ block_size = 1 /\ hop_size = 1 /\ look_ahead = 0
  /\ disable_repetition_detection = FALSE
  /\ encoded_feat_length_limit = 0 /\ beam_size = 1
  /\ encbuffer = NoneBuf
  /\ running_hyps = NoneHyps
  /\ prev_hyps = SomeHyps(<<>>)
  /\ ended_hyps \in EndedLists
  /\ processed_block = 0
  /\ process_idx = 0
  /\ pc = "idle"
  /\ maxlenratio = 0 /\ minlenratio = 0 /\ is_final = FALSE
  /\ maxlen = 0 /\ minlen = 0
  /\ cur_end_frame = 0 /\ h = <<>> /\ block_is_final = FALSE
  /\ best = <<>> /\ truncated = FALSE /\ exit = "none"
  /\ ret = RetUnset /\ err = "none"
  /\ ncalls = 0 /\ nsteps = 0 /\ blocksteps = 0 /\ lastx = 0

\* self.assemble_hyps(self.ended_hyps), lines 227-256.
AssembleCall ==
  /\ pc = "idle"
  /\ ncalls < MaxCalls
  /\ LET r == assemble_hyps(ended_hyps)
     IN  /\ ret' = r.value
         /\ err' = r.raised
         /\ ended_hyps' = r.ended
  /\ ncalls' = ncalls + 1
  /\ UNCHANGED <<cfgvars, encbuffer, running_hyps, prev_hyps, processed_block,
                 process_idx, callvars, nsteps, blocksteps, lastx, tvars,
                 othervars>>

NextAssemble == AssembleCall

SpecAssemble == InitAssemble /\ [][NextAssemble]_vars

\* The position of hypothesis e in the list s.
PosIn(s, e) == CHOOSE i \in 1..Len(s): s[i] = e

\* The list r holds the hypotheses of s in descending order of score, those
\* of equal score in their order in s.
StableDescOf(r, s) ==
  /\ Len(r) = Len(s)
  /\ \A i \in 1..Len(s): \E j \in 1..Len(r): r[j] = s[i]
  /\ \A i, j \in 1..Len(r):
       i < j => \/ r[i].score > r[j].score
                \/ r[i].score = r[j].score /\ PosIn(s, r[i]) < PosIn(s, r[j])

\* C13: a call of assemble_hyps on a non-empty completed set leaves the set
\* as it was and returns its hypotheses in descending order of score, equal
\* scores in insertion order; a second call returns the same list as the
\* first.
C13_ReassemblyIdempotent ==
  [][(ncalls' = ncalls + 1 /\ ended_hyps # <<>>) =>
       /\ ended_hyps' = ended_hyps
       /\ err' = "none"
       /\ ret'.kind = "list"
       /\ StableDescOf(ret'.hyps, ended_hyps)
       /\ ncalls >= 1 => ret' = ret]_vars

\* C13: assemble_hyps has been called twice on a set that was not in
\* descending order and holds two hypotheses of equal score.
C13_Witness ==
  /\ ncalls = 2
  /\ ret.kind = "list"
  /\ ret.hyps # ended_hyps
  /\ \E i, j \in 1..Len(ended_hyps):
       i # j /\ ended_hyps[i].score = ended_hyps[j].score

(***************************************************************************)
(* Decoding with scorers that are functions of their input (under          *)
(* SpecStream): the vector a scorer gives depends on the block it is shown *)
(* and on the hypothesis, and on nothing else.                             *)
(***************************************************************************)

\* The log-probabilities the scorers give hypothesis hyp when shown the
\* frames hh: the vector that favours one token, chosen by the number of
\* frames and the length of the hypothesis.
Scorer(hh, hyp) ==
  LET fav == ((Len(hh) + Len(hyp.yseq)) % eos) + 1
  IN  [k \in Vocab |-> IF k = fav THEN 0
                       ELSE IF k = (fav % eos) + 1 THEN -4 ELSE -3]

ScoresFor(hh, hs) == [i \in 1..Len(hs) |-> Scorer(hh, hs[i])]

SearchStepScored == SearchStepWith(eos, ScoresFor(h, running_hyps.hyps))

NextStream ==
  \/ \E n \in 0..MaxFrames, mlr \in MaxLenRatios, mnr \in MinLenRatios,
        fin \in BOOLEAN: Forward(n, mlr, mnr, fin)
  \/ BlockLoop
  \/ SearchStepScored
  \/ BlockExit
  \/ Reset

SpecStream == InitOnline /\ [][NextStream]_vars

\* The step budget of an offline decode of T frames.
OfflineMaxLen(ratio, T) == IF ratio = 0 THEN T ELSE Max(1, (ratio * T) \div 10)

\* An offline decode: the step loop run once with the whole input x visible
\* as a single final block, from position idx on.
RECURSIVE OfflineLoop(_, _, _, _, _, _, _, _)
OfflineLoop(running, prev, ended, idx, x, ml, mlr, beam) ==
  IF ~(idx < ml) THEN BlockTail(running, prev, idx, ended, TRUE).out
  ELSE LET o == StepOf(eos, running, prev, ended, idx, ml, mlr, TRUE, beam, TRUE,
                       ScoresFor(x, running.hyps))
       IN  IF o.exit = "continue"
           THEN OfflineLoop(o.running, o.prev, o.ended, o.idx, x, ml, mlr, beam)
           ELSE o.out

Offline(x, mlr, beam) ==
  OfflineLoop(SomeHyps(init_hyp(x)), SomeHyps(<<>>), <<>>, 0, x,
              OfflineMaxLen(mlr, Len(x)), mlr, beam)

\* The first forward call of the object was given the whole input with
\* is_final=True and process_one_block has handed back its result.
OneCallDecodeOver ==
  /\ FinalCallOver
  /\ ncalls = 1
  /\ block_is_final
  /\ exit # "none"

C15_BufferNeverShrinks ==
  [][/\ (ncalls' = ncalls + 1) =>
          /\ ~encbuffer'.isNone
          /\ Len(encbuffer'.frames) = Len(encbuffer.frames) + lastx'
          /\ SubSeq(encbuffer'.frames, 1, Len(encbuffer.frames))
               = encbuffer.frames
     /\ (ncalls' = ncalls /\ ~encbuffer'.isNone) => encbuffer' = encbuffer
    ]_vars

\* C15: a second forward has added frames to a buffer that held frames of the
\* first, and the visible block was truncated.
C15_Witness ==
  /\ ncalls = 2
  /\ Len(encbuffer.frames) = MaxFrames
  /\ encbuffer.frames[1] = 1
  /\ encbuffer.frames[MaxFrames] = 2
  /\ truncated

(***************************************************************************)
(* The completed hypotheses of both searches (under SpecCompleted): a      *)
(* behaviour is a session of BatchBeamSearchOnline or one call of          *)
(* align_length_sync_decoding.                                             *)
(***************************************************************************)

InitAlsd ==
  /\ InitTransducer
  /\ search_type = "alsd"
  /\ recog_beam > 1

InitCompleted == InitOnline \/ InitAlsd

\* The behaviour is one of a transducer search: encoder frames were given.
TransducerCall == h_length >= 1

NextCompleted ==
  \/ ~TransducerCall /\ Next
  \/ TransducerCall /\ SearchInterface
  \/ TransducerCall /\ AlsdIter
  \/ TransducerCall /\ AlsdReturn

SpecCompleted == InitCompleted /\ [][NextCompleted]_vars

\* s is the beginning of t, entry for entry.
IsPrefixOf(s, t) == Len(t) >= Len(s) /\ SubSeq(t, 1, Len(s)) = s

\* C16: the completed hypotheses are append-only and frozen.  Every step
\* other than reset() leaves the entries ended_hyps had where they were, with
\* their sequences and scores, and every step of align_length_sync_decoding
\* does the same to the entries of final, whatever it does to A and B.
C16_CompletedFrozen ==
  [][/\ (encbuffer.isNone \/ ~encbuffer'.isNone) =>
          IsPrefixOf(ended_hyps, ended_hyps')
     /\ (tpc = "alsd") => IsPrefixOf(final, final')
    ]_vars

\* C16: ended_hyps holds hypotheses added at different steps of a session
\* that is still stepping.
C16_Witness ==
  /\ pc = "block"
  /\ Len(ended_hyps) >= 2
  /\ Len(ended_hyps[1].yseq) < Len(ended_hyps[Len(ended_hyps)].yseq)
  /\ running_hyps.hyps # <<>>

\* C16: final holds hypotheses added at different iterations of
\* align_length_sync_decoding, and B has been recombined since.
C16_FinalistWitness ==
  /\ tpc = "alsd"
  /\ Len(final) >= 2
  /\ Len(final[1].yseq) < Len(final[Len(final)].yseq)
  /\ B # <<>>

(***************************************************************************)
(* The scenario of a five-id vocabulary (under SpecScenario): ids 0..4,    *)
(* 0 the start token and 4 the end token, beam width 2 (BeamSizes), and a  *)
(* full scorer whose vector depends on the step alone: it favours id 2 at  *)
(* the first position and id 4 at the second.                              *)
(***************************************************************************)
ScenarioEos == 4

ScenarioVocab == 1..ScenarioEos

\* The vectors of the first position: id 2 has log-probability 0, every
\* other id one or two units less.
Step1Vecs ==
  { v \in [ScenarioVocab -> {0, -1, -2}] :
      v[2] = 0 /\ \A k \in ScenarioVocab \ {2}: v[k] < 0 }

\* The vectors of the second position: the end id has log-probability 0,
\* every other id three or four units less.
Step2Vecs ==
  { v \in [ScenarioVocab -> {0, -3, -4}] :
      v[ScenarioEos] = 0 /\ \A k \in ScenarioVocab \ {ScenarioEos}: v[k] < 0 }

\* The vectors the scorer may give at position idx.
ScenarioVecs(idx) ==
  IF idx = 0 THEN Step1Vecs
  ELSE IF idx = 1 THEN Step2Vecs
  ELSE Step1Vecs \cup Step2Vecs

\* One iteration of the step loop, every running hypothesis scored with the
\* vector of the position.
ScenarioStep ==
  \E v \in ScenarioVecs(process_idx):
    SearchStepWith(ScenarioEos, [i \in 1..Len(running_hyps.hyps) |-> v])

NextScenario ==
  \/ \E n \in 0..MaxFrames, mlr \in MaxLenRatios, mnr \in MinLenRatios,
        fin \in BOOLEAN: Forward(n, mlr, mnr, fin)
  \/ BlockLoop
  \/ ScenarioStep
  \/ BlockExit
  \/ Reset

\* The block sizes of the scenario: one frame a block, or a block that
\* holds the whole input.
ScenarioBlockSizes == {1, MaxFrames}

\* __init__ and reset(), lines 41-59, with the scenario's block sizes.
InitScenario ==
  /\ NoSearch /\ NoScoring /\ NoTraining
  /\ block_size \in ScenarioBlockSizes
  /\ hop_size \in HopSizes
  /\ look_ahead \in LookAheads
  /\ disable_repetition_detection \in BOOLEAN
  /\ encoded_feat_length_limit \in FeatLimits
  /\ beam_size \in BeamSizes
  /\ encbuffer = NoneBuf
  /\ running_hyps = NoneHyps
  /\ prev_hyps = SomeHyps(<<>>)
  /\ ended_hyps = <<>>
  /\ processed_block = 0
  /\ process_idx = 0
  /\ pc = "idle"
  /\ maxlenratio = 0 /\ minlenratio = 0 /\ is_final = FALSE
  /\ maxlen = 0 /\ minlen = 0
  /\ cur_end_frame = 0 /\ h = <<>> /\ block_is_final = FALSE
  /\ best = <<>> /\ truncated = FALSE /\ exit = "none"
  /\ ret = RetUnset /\ err = "none"
  /\ ncalls = 0 /\ nsteps = 0 /\ blocksteps = 0 /\ lastx = 0

SpecScenario == InitScenario /\ [][NextScenario]_vars

\* The first forward call of the object, given at least two frames with
\* is_final=True, has returned.
ScenarioDecodeOver ==
  /\ FinalCallOver
  /\ ncalls = 1
  /\ Len(encbuffer.frames) >= 2
  /\ err = "none"

C18_GreedyStaysOnFrame ==
  [][(tpc = "greedy" /\ tpc' = "greedy") =>
        /\ Len(hyps') = 1
        /\ ti' = (IF ArgMax(ytu') = blank THEN ti + 1 ELSE ti)
    ]_vars

\* C19: time_sync_decoding lets a hypothesis extended by up to nstep symbols
\* on a frame into the beam B carried to the next frame, one symbol when
\* nstep = 1.  B keeps the w_range >= 2 best of the hypotheses built on the
\* frame and after the first frame only one of them, [blank], has no symbol:
\* so when the first frame is done B holds a hypothesis with a symbol.
C19_SymbolsEnterBeam ==
  (tpc = "tsd" /\ ti >= 1) => \E j \in 1..Len(B): Len(B[j].yseq) >= 2

\* No two hypotheses of the list s have the same output sequence.
UniqueSeqs(s) ==
  \A i, j \in 1..Len(s): s[i].yseq = s[j].yseq => i = j

\* The log-probabilities the joint network may give blank.
BlankLogps == { At(v, blank) : v \in TVecs }

\* One pass of the loop over v of time_sync_decoding has run: every
\* sequence of A and of C is in the new A, and an entry of the new A has the
\* score A held for its sequence, or the score of the path of C closed by
\* blank, or, when both exist, the log-sum-exp of the two.
TsdPathsMerged ==
  /\ \A p \in 1..Len(A): \E i \in 1..Len(A'): A'[i].yseq = A[p].yseq
  /\ \A q \in 1..Len(C): \E i \in 1..Len(A'): A'[i].yseq = C[q].yseq
  /\ \A i \in 1..Len(A'):
       LET inA == { p \in 1..Len(A) : A[p].yseq = A'[i].yseq }
           inC == { q \in 1..Len(C) : C[q].yseq = A'[i].yseq }
       IN  IF inA # {} /\ inC # {}
           THEN \E p \in inA, q \in inC, bl \in BlankLogps:
                  A'[i].score = LogAddExp(A[p].score, C[q].score + bl)
           ELSE IF inA # {}
           THEN \E p \in inA: A'[i].score = A[p].score
           ELSE \E q \in inC, bl \in BlankLogps: A'[i].score = C[q].score + bl

\* C20: in time_sync_decoding no two hypotheses of A, and so of the beam B
\* made from it when a frame is done, have the same output sequence: when
\* two paths reach one sequence within a frame, one entry is kept and its
\* score is the log-sum-exp of the scores of both paths.
C20_BeamSequencesUnique ==
  /\ []((tpc \in {"tsd", "tsd_v"}) => (UniqueSeqs(B) /\ UniqueSeqs(A)))
  /\ [][(tpc = "tsd_v" /\ vn' = vn + 1) => TsdPathsMerged]_vars

\* C20: the second frame is done with two rounds and a beam of two: the two
\* hypotheses of C were closed by blank in the last round and A, which held
\* two entries, holds three, one of the two having met its sequence in A.
C20_Witness ==
  /\ tpc = "tsd"
  /\ ti = 2
  /\ nstep = 2
  /\ Len(B) = 2
  /\ Len(D) = 2 * (odim - 1)
  /\ Len(A) = 3

(***************************************************************************)
(* Properties of align_length_sync_decoding and default_beam_search        *)
(* (under SpecTransducer).                                                 *)
(***************************************************************************)

\* The hypotheses of B that iteration i of align_length_sync_decoding
\* scores: those whose frame lies in h (line 284).
AlsdScored(i) ==
  { n \in 1..Len(B) : AlsdFrameOf(i, Len(B[n].yseq) - 1) <= h_length - 1 }

\* C21: at iteration i of align_length_sync_decoding every hypothesis that
\* is scored, of output length u, is scored against the frame t with
\* i = t + u; the initial hypothesis is scored against frame 0 at iteration 0.
C21_AlignmentLength ==
  (tpc = "alsd" /\ ti < h_length + AlsdUMax(u_max, h_length)) =>
    /\ \A n \in AlsdScored(ti):
         ti = AlsdFrameOf(ti, Len(B[n].yseq) - 1) + (Len(B[n].yseq) - 1)
    /\ (ti = 0 => AlsdScored(ti) # {})

\* C22: the language model is optional in every strategy search_interface
\* selects.  With rnnlm supplied, a non-blank token that greedy_search
\* (beam_size = 1) appends adds the joint-network log-probability and
\* lm_weight times the language model's log-probability of the token to the
\* score; with rnnlm absent it adds the joint-network log-probability alone.
C22_LmOptionalEveryStrategy ==
  [][(tpc = "greedy" /\ tpc' = "greedy" /\ ArgMax(ytu') # blank) =>
        hyps'[1].score =
          hyps[1].score + At(ytu', ArgMax(ytu'))
            + (IF rnnlm
               THEN lm_weight * At(LmPredict(hyps[1].yseq), ArgMax(ytu'))
               ELSE 0)
    ]_vars

(***************************************************************************)
(* Properties of the session state of BatchBeamSearchOnline (under Spec).  *)
(***************************************************************************)

StateAfterReset ==
  /\ encbuffer.isNone
  /\ running_hyps.isNone
  /\ prev_hyps.hyps = <<>>
  /\ ended_hyps = <<>>
  /\ processed_block = 0
  /\ process_idx = 0

\* C24: when forward has returned the result of a final block the streaming
\* state is discarded: the next forward call starts from the state reset()
\* leaves, whether or not reset() is called.
C24_StateDiscardedAfterFinal ==
  (FinalCallOver /\ err = "none" /\ ret.kind = "list") => StateAfterReset

\* process_one_block is entered, or has returned from a non-final block.
BlockBoundary ==
  \/ pc = "block" /\ blocksteps = 0
  \/ pc = "loop" /\ exit # "none"

\* C25: at every block boundary of an online session running_hyps is not
\* empty and every hypothesis in it has exactly process_idx + 1 tokens, the
\* start token and one token per settled step.
C25_RunningMatchesIndex ==
  BlockBoundary =>
    /\ running_hyps.hyps # <<>>
    /\ \A i \in 1..Len(running_hyps.hyps):
         Len(running_hyps.hyps[i].yseq) = process_idx + 1

\* C26: a non-final block never changes the completed set: whatever maxlen
\* and process_idx are, every step of process_one_block(is_final=False)
\* leaves ended_hyps as it was.
C26_NonFinalKeepsEnded ==
  [][(pc = "block" /\ ~block_is_final) => ended_hyps' = ended_hyps]_vars

(***************************************************************************)
(* BatchBeamSearchOnline.score_full (lines 61-87) with a text limit.       *)
(***************************************************************************)
MaxRows == 2
MaxTextLen == 3
TextLimits == 0..2

\* The attributes the constructor gives the object (lines 42-50, reset()
\* at line 42 included).
SelfAttrs ==
  {"encbuffer", "running_hyps", "prev_hyps", "ended_hyps", "processed_block",
   "process_idx", "feature_width", "text_width", "block_size", "hop_size",
   "look_ahead", "disable_repetition_detection", "encoded_feat_length_limit",
   "decoder_text_length_limit"}

\* The rows hyp.yseq may hold: sos, then tokens of the vocabulary.
RowsOfLen(n) == { <<sos>> \o t : t \in [1..(n - 1) -> Vocab] }

\* The batches score_full may be given: rows of one length.
YseqBatches ==
  UNION { [1..r -> RowsOfLen(n)] : r \in 1..MaxRows, n \in 1..MaxTextLen }

\* yseq.narrow(1, -n, n).clone(): a copy of the last n columns of each row.
NarrowLast(yseq, n) ==
  [r \in 1..Len(yseq) |-> SubSeq(yseq[r], Len(yseq[r]) - n + 1, Len(yseq[r]))]

\* temp_yseq[:, 0] = tok
SetFirstColumn(yseq, tok) ==
  [r \in 1..Len(yseq) |-> [yseq[r] EXCEPT ![1] = tok]]

\* score_full with one full scorer.  base_len tells whether the base classes
\* give the object an attribute len (the method self.len is defined nowhere
\* in this file); the third argument of narrow reads the attribute
\* decoder_text_length_oimit.  The result names what batch_score was given,
\* what hyp.yseq holds afterwards and the exception raised.
score_full(limit, yseq, base_len) ==
  LET Raise(e) == [arg |-> <<>>, yseq |-> yseq, raised |-> e]
      Give(a) == [arg |-> a, yseq |-> yseq, raised |-> "none"]
  IN  IF limit > 0 /\ ~base_len
        THEN Raise("AttributeError")
      ELSE IF limit > 0 /\ Len(yseq) > 0 /\ Len(yseq[1]) > limit
        THEN IF "decoder_text_length_oimit" \in SelfAttrs
               THEN Give(SetFirstColumn(NarrowLast(yseq, limit), sos))
               ELSE Raise("AttributeError")
      ELSE Give(yseq)

InitScoreFull ==
  /\ NoSearch /\ NoSession /\ NoTraining
  /\ decoder_text_length_limit \in TextLimits
  /\ spc = "idle"
  /\ hyp_yseq \in YseqBatches
  /\ batch_score_arg = <<>>
  /\ score_err = "none"

\* One call of score_full(hyp, x).
ScoreFull ==
  /\ spc = "idle"
  /\ \E base_len \in BOOLEAN:
       LET r == score_full(decoder_text_length_limit, hyp_yseq, base_len)
       IN  /\ batch_score_arg' = r.arg
           /\ hyp_yseq' = r.yseq
           /\ score_err' = r.raised
  /\ spc' = "done"
  /\ UNCHANGED <<onlinevars, tvars, updvars, decoder_text_length_limit>>

NextScoreFull == ScoreFull

SpecScoreFull == InitScoreFull /\ [][NextScoreFull]_vars

\* The last n tokens of a row, the first of them replaced by sos.
LastTokensFromSos(row, n) ==
  [SubSeq(row, Len(row) - n + 1, Len(row)) EXCEPT ![1] = sos]

\* C27: with a text limit L > 0 a finished score_full call has not raised,
\* has left hyp.yseq as it was, and has given the full scorer the last L
\* tokens of every row with the first replaced by sos when rows are longer
\* than L, the whole rows otherwise.
C27_LimitedTextScored ==
  [][(ScoreFull /\ decoder_text_length_limit > 0) =>
        /\ score_err' = "none"
        /\ hyp_yseq' = hyp_yseq
        /\ batch_score_arg' =
             IF Len(hyp_yseq[1]) > decoder_text_length_limit
               THEN [r \in 1..Len(hyp_yseq) |->
                       LastTokensFromSos(hyp_yseq[r], decoder_text_length_limit)]
               ELSE hyp_yseq]_vars

\* The hypotheses of kept whose score is strictly greater than m.
KeptAbove(kept, m) == { n \in 1..Len(kept) : kept[n].score > m }

\* C28: when default_beam_search leaves the while loop of a frame, at least
\* min(beam_size, odim) hypotheses of kept_hyps have a score strictly greater
\* than the best score among the hypotheses still in hyps.
C28_StopsOnBetterKept ==
  [][(tpc = "default_while" /\ tpc' = "default") =>
        Cardinality(KeptAbove(kept_hyps', hyps'[MaxIndex(hyps')].score))
          >= BeamRange(recog_beam)]_vars

\* C29: every hypothesis align_length_sync_decoding returns from its finalist
\* pool has at most min(recog_args.u_max, T - 1) tokens after the initial
\* blank, T being the number of encoder frames.
C29_FinalistsWithinUMax ==
  (tpc = "done" /\ search_type = "alsd" /\ recog_beam > 1 /\ final # <<>>) =>
    \A n \in 1..Len(nbest_hyps):
      Len(nbest_hyps[n].yseq) - 1 <= Min(u_max, h_length - 1)

(***************************************************************************)
(* CustomUpdater and CustomParallelUpdater (chainer_backend/transformer/   *)
(* training.py).  A gradient is "clear" (cleargrads), "finite" or "nan";   *)
(* backward adds the gradient of the batch to the one the model holds.     *)
(***************************************************************************)
Updaters == {"CustomUpdater", "CustomParallelUpdater"}
AccumGrads == {1, 2, 3}

\* self.count only grows; its value is read as count == 1 and as
\* count % accum_grad, so past MaxCount it is folded back by a multiple of
\* every accum_grad.
MaxCount == 8
CountPeriod == 2 * 3
CountAfter(c) == IF c + 1 > MaxCount THEN c + 1 - CountPeriod ELSE c + 1

\* loss.backward(): the gradient held after adding the batch's gradient.
Backward(held, of_batch) ==
  IF held = "nan" \/ of_batch = "nan" THEN "nan" ELSE "finite"

\* math.isnan(grad_norm), grad_norm the norm of the gradients held.
IsNanNorm(held) == held = "nan"

\* CustomUpdater.update_core, lines 48-78: the gradients held and what the
\* call did.
CustomUpdaterCore(c, accum, held, of_batch) ==
  LET g == Backward(IF c = 1 THEN "clear" ELSE held, of_batch)
  IN  IF IsNanNorm(g) THEN [grads |-> "clear", did |-> "nan"]
      ELSE IF c % accum = 0 THEN [grads |-> "clear", did |-> "update"]
      ELSE [grads |-> g, did |-> "accumulate"]

\* CustomParallelUpdater.update_core, lines 92-133: the branch of a NaN norm
\* (lines 123-124) only logs a warning.
CustomParallelUpdaterCore(c, accum, held, of_batch) ==
  LET g == Backward(held, of_batch)
  IN  IF IsNanNorm(g) THEN [grads |-> g, did |-> "nan"]
      ELSE IF c % accum = 0 THEN [grads |-> "clear", did |-> "update"]
      ELSE [grads |-> g, did |-> "accumulate"]

InitUpdater ==
  /\ NoSearch /\ NoSession /\ NoScoring
  /\ updater \in Updaters
  /\ accum_grad \in AccumGrads
  /\ count = 0
  /\ grads = "clear"
  /\ batch_grad = "none"
  /\ last_call = "none"

\* One update_core call of the trainer's loop, on a batch whose gradient is
\* finite or NaN.
UpdateCore ==
  /\ updater \in Updaters
  /\ \E of_batch \in {"finite", "nan"}:
       LET c == count + 1
           r == IF updater = "CustomUpdater"
                THEN CustomUpdaterCore(c, accum_grad, grads, of_batch)
                ELSE CustomParallelUpdaterCore(c, accum_grad, grads, of_batch)
       IN  /\ count' = CountAfter(count)
           /\ grads' = r.grads
           /\ last_call' = r.did
           /\ batch_grad' = of_batch
  /\ UNCHANGED <<onlinevars, tvars, scorevars, updater, accum_grad>>

NextUpdater == UpdateCore

SpecUpdater == InitUpdater /\ [][NextUpdater]_vars

\* The trainer calls update_core again and again.
SpecUpdaterFair == SpecUpdater /\ WF_vars(UpdateCore)

\* A call that observes a NaN norm leaves the gradients cleared.
NanCallClearsGrads ==
  [][(UpdateCore /\ last_call' = "nan") => grads' = "clear"]_vars

\* C30: in both updaters a NaN gradient norm never blocks later updates: if
\* from some call on every batch gives a finite gradient, optimizer.update
\* is called again and again.
C30_NanNeverBlocksUpdates ==
  <>[](batch_grad = "finite") => []<>(last_call = "update")

====
